---- MODULE Spec2Model ----
(***************************************************************************)
(* A model of StreamServerComponent                                        *)
(* (src/components/stream_server/stream_server.cpp): the bridge between    *)
(* one byte stream (UART) and any number of TCP clients.                   *)
(*                                                                         *)
(*   - readline():  the line framer with its static buffer and cursor;     *)
(*   - loop():      cleanup(), read(), write(), in steps between which the *)
(*                  network callbacks may run;                             *)
(*   - callbacks:   onClient (admission), onData (append to recv_buf_),    *)
(*                  onError / onDisconnect / onTimeout (flag the client);  *)
(*   - on_shutdown: every connection of the registry force-closed.         *)
(*                                                                         *)
(* Bytes are integers 0..255.  A C array index i is the sequence index     *)
(* i + 1.  Variables marked "history" record what the program did and are  *)
(* read by no action's guard or assignment of program state.               *)
(***************************************************************************)
EXTENDS Integers, Sequences, FiniteSets, TLC

\* ---------------------------------------------------------------- constants
BUF_SIZE == 256
LINE_SIZE == 80
\* '\n', '\r' and the terminator 0 of readline's switch
LF == 10
CR == 13
NUL == 0

\* ------------------------------------------------------------------- bounds
\* readline called directly: the one-byte calls with a byte of any kind
MaxFeed == 4
\* the component: accepted connections, onData callbacks, flag callbacks,
\* spurious (null) events, bytes arriving on the stream, ticks
MaxClients == 3
MaxData == 2
MaxFlag == 2
MaxNull == 1
MaxArrive == 4
MaxBcast == 2
MaxTicks == 2
\* where a specification follows the clients' lives or the whole tick: the
\* events of a kind (onData callbacks; stream bytes; admissions and flag
\* callbacks in the whole tick) it lets happen
MaxLifeData == 1
\* clients where the chunks of read() or the onData callbacks are followed
MaxChunkClients == 2

\* the bytes the environment draws from: the three bytes readline treats
\* specially and two ordinary ones ('a', 'b')
Bytes == {NUL, LF, CR, 97, 98}
\* the bytes readline is called with directly: the special ones and 'a'
FeedBytes == {NUL, LF, CR, 97}
\* the payload bytes clients send ('x', 'y')
PayloadBytes == {120, 121}
\* the burst's k-th filler byte (counted down): all distinct, none special
RunLen == LINE_SIZE - 1
Filler(k) == 32 + k

\* ------------------------------------------------------------------ helpers
Min(a, b) == IF a < b THEN a ELSE b

Take(s, n) == SubSeq(s, 1, Min(n, Len(s)))

Drop(s, n) == SubSeq(s, Min(n, Len(s)) + 1, Len(s))

\* ---------------------------------------------------------------- variables
VARIABLES
  \* the build: ESPHOME_VERSION_CODE >= VERSION_CODE(2021, 10, 0)
  newApi,
  \* readline's statics
  line, pos,
  \* the component's members
  clients_, recv_buf_,
  \* loop()'s position and the locals of read() and write()
  pc, buf, wlen,
  \* the stream: bytes available to read, bytes written to it
  rx, tx,
  \* the sink of publish_state, and what each connection was sent
  published, sent,
  \* connection handles: accepted so far, force-closed, deleted
  nAccepted, closed, deleted, shut,
  \* history of readline: bytes handed to it, bytes consumed since the last
  \* returned line, the lines returned, the last call, a store outside line[]
  fed, seg, retLines, lastCall, oob,
  \* history of the fan-in: bytes appended by onData, the marks of the last
  \* completed write phase, the write phase (out, in, raced: an onData ran
  \* during it), the last completed write phase
  appended, markApp, markTx, wphase, drain,
  \* history of the fan-out: the live clients at the start of this tick's
  \* cleanup, the recipients of the last broadcast, broadcasts this tick,
  \* and what else held when this tick's cleanup began: the clients flagged
  \* at the start of this or an earlier cleanup, the number of bytes the
  \* stream had been read, the number of bytes each connection had been sent
  liveAtCleanup, lastTo, nBcast, atCleanup,
  \* counters that bound the run
  ticks, nData, nFlag, nNull, nArrive, nFeed, nRun, run

framerVars == <<line, pos, fed, seg, retLines, lastCall, oob>>
registryVars == <<clients_, nAccepted, closed, deleted>>
fanInVars == <<recv_buf_, appended, tx, markApp, markTx, wphase, drain>>
fanOutVars == <<sent, liveAtCleanup, lastTo, nBcast, atCleanup>>
streamVars == <<rx, nArrive>>
ctlVars == <<pc, buf, wlen, ticks, shut>>
cbVars == <<nData, nFlag, nNull>>
unitVars == <<nFeed, nRun, run>>

vars == <<newApi, framerVars, registryVars, fanInVars, fanOutVars, streamVars,
          ctlVars, cbVars, unitVars, published>>

\* ----------------------------------------------------------------- readline
\* line[i] = c.  A store outside line[0 .. LINE_SIZE-1] is undefined
\* behaviour: it is recorded in oob and leaves the array as it is.
InLine(i) == i \in 0 .. (LINE_SIZE - 1)

Store(l, i, c) == IF InLine(i) THEN [l EXCEPT ![i + 1] = c] ELSE l

\* The string a char* points to: the bytes before the first 0.
StrLen(l) ==
  LET zeros == {i \in 1 .. Len(l) : l[i] = NUL}
  IN  IF zeros = {} THEN Len(l)
      ELSE (CHOOSE i \in zeros : \A j \in zeros : i <= j) - 1

CStr(l) == SubSeq(l, 1, StrLen(l))

\* One iteration of the while loop: the switch on c.  st.found is the
\* 'return line'; st.str is what was accumulated before the terminator.
ReadlineNoReset(st, c) ==
  IF c = LF THEN st
  ELSE IF c = CR THEN
    [st EXCEPT !.line = Store(st.line, st.pos, NUL),
               !.oob = st.oob \/ ~InLine(st.pos),
               !.str = Take(st.line, st.pos),
               !.found = TRUE]
  ELSE IF st.pos < LINE_SIZE - 1 THEN
    [st EXCEPT !.line = Store(st.line, st.pos, c),
               !.oob = st.oob \/ ~InLine(st.pos),
               !.pos = st.pos + 1]
  ELSE st

ReadlineNoGuard(st, c) ==
  IF c = LF THEN st
  ELSE IF c = CR THEN
    [st EXCEPT !.line = Store(st.line, st.pos, NUL),
               !.oob = st.oob \/ ~InLine(st.pos),
               !.str = Take(st.line, st.pos),
               !.pos = 0,
               !.found = TRUE]
  ELSE
    [st EXCEPT !.line = Store(st.line, st.pos, c),
               !.oob = st.oob \/ ~InLine(st.pos),
               !.pos = st.pos + 1]

ReadlineByte(st, c) ==
  IF c = LF THEN st
  ELSE IF c = CR THEN
    [st EXCEPT !.line = Store(st.line, st.pos, NUL),
               !.oob = st.oob \/ ~InLine(st.pos),
               !.str = Take(st.line, st.pos),
               !.pos = 0,
               !.found = TRUE]
  ELSE IF st.pos < LINE_SIZE - 1 THEN
    [st EXCEPT !.line = Store(st.line, st.pos, c),
               !.oob = st.oob \/ ~InLine(st.pos),
               !.pos = st.pos + 1]
  ELSE st

\* while (len--) { c = *buf++; switch ... } over chunk[i .. j], in order and
\* stopping at the first '\r'; used is the number of bytes of the chunk the
\* loop looked at.  (The range is walked by halves to keep the evaluation
\* shallow; the bytes are taken left to right, one at a time.)
RECURSIVE ReadlineRange(_, _, _, _)
ReadlineRange(st, chunk, i, j) ==
  IF i = j THEN
    LET s2 == ReadlineByte(st, chunk[i])
    IN  IF s2.found THEN [s2 EXCEPT !.used = i] ELSE s2
  ELSE
    LET m == (i + j) \div 2
        s1 == ReadlineRange(st, chunk, i, m)
    IN  IF s1.found THEN s1 ELSE ReadlineRange(s1, chunk, m + 1, j)

ReadlineLoop(st, chunk) ==
  IF Len(chunk) = 0 THEN st ELSE ReadlineRange(st, chunk, 1, Len(chunk))

\* readline(buf, len) on the statics (l, p): found = FALSE is the NULL result.
ReadlineLocalPos(l, p, chunk) ==
  ReadlineLoop([line |-> l, pos |-> 0, found |-> FALSE, str |-> <<>>,
                oob |-> FALSE, used |-> Len(chunk)], chunk)

Readline(l, p, chunk) ==
  ReadlineLoop([line |-> l, pos |-> p, found |-> FALSE, str |-> <<>>,
                oob |-> FALSE, used |-> Len(chunk)], chunk)

\* A call of readline and its history.
CallReadline(chunk) ==
  LET r == Readline(line, pos, chunk)
  IN  /\ line' = r.line
      /\ pos' = r.pos
      /\ oob' = (oob \/ r.oob)
      /\ fed' = fed \o chunk
      /\ seg' = IF r.found THEN <<>> ELSE seg \o chunk
      /\ retLines' = IF r.found THEN Append(retLines, r.str) ELSE retLines
      /\ lastCall' = [chunk |-> chunk, acc |-> Take(line, pos),
                      found |-> r.found, str |-> r.str, used |-> r.used,
                      npub |-> Len(published)]

\* --------------------------------------------------------------------- Init
Init ==
  /\ newApi \in BOOLEAN
  /\ line = [i \in 1 .. LINE_SIZE |-> NUL]
  /\ pos = 0
  /\ clients_ = <<>>
  /\ recv_buf_ = <<>>
  /\ pc = "idle"
  /\ buf = <<>>
  /\ wlen = 0
  /\ rx = <<>>
  /\ tx = <<>>
  /\ published = <<>>
  /\ sent = [h \in 1 .. MaxClients |-> <<>>]
  /\ nAccepted = 0
  /\ closed = {}
  /\ deleted = {}
  /\ shut = FALSE
  /\ fed = <<>>
  /\ seg = <<>>
  /\ retLines = <<>>
  /\ lastCall = [chunk |-> <<>>, acc |-> <<>>, found |-> FALSE, str |-> <<>>,
                 used |-> 0, npub |-> 0]
  /\ oob = FALSE
  /\ appended = <<>>
  /\ markApp = 0
  /\ markTx = 0
  /\ wphase = "out"
  /\ drain = [n |-> 0, wrote |-> <<>>, due |-> <<>>, left |-> <<>>,
              raced |-> FALSE]
  /\ liveAtCleanup = {}
  /\ lastTo = <<>>
  /\ nBcast = 0
  /\ atCleanup = [dead |-> {}, nFed |-> 0,
                  nSent |-> [h \in 1 .. MaxClients |-> 0]]
  /\ ticks = 0
  /\ nData = 0
  /\ nFlag = 0
  /\ nNull = 0
  /\ nArrive = 0
  /\ nFeed = 0
  /\ nRun = 0
  /\ run = 0

\* ---------------------------------------------------------------- callbacks
Handles(cs) == {cs[i].tcp_client : i \in 1 .. Len(cs)}

\* Client::Client: the handle, disconnected{false}.  (The identifier, the
\* peer's address, is only logged.)
NewClient(h) == [tcp_client |-> h, disconnected |-> FALSE]

\* the guard left out: a client made of the null connection (handle 0)
OnClientNullAdmits ==
  /\ nNull < MaxNull
  /\ nNull' = nNull + 1
  /\ clients_' = Append(clients_, [tcp_client |-> 0, disconnected |-> FALSE])
  /\ UNCHANGED <<newApi, framerVars, nAccepted, closed, deleted, fanInVars,
                 fanOutVars, streamVars, ctlVars, nData, nFlag, unitVars,
                 published>>

\* server_.onClient with a null tcpClient: return.
OnClientNull ==
  /\ nNull < MaxNull
  /\ nNull' = nNull + 1
  /\ UNCHANGED <<newApi, framerVars, registryVars, fanInVars, fanOutVars,
                 streamVars, ctlVars, nData, nFlag, unitVars, published>>

\* server_.onClient with a new connection: clients_.push_back(new Client).
OnClient ==
  /\ nAccepted < MaxClients
  /\ nAccepted' = nAccepted + 1
  /\ clients_' = Append(clients_, NewClient(nAccepted + 1))
  /\ UNCHANGED <<newApi, framerVars, closed, deleted, fanInVars, fanOutVars,
                 streamVars, ctlVars, cbVars, unitVars, published>>

\* The body shared by onError, onDisconnect and onTimeout of client h:
\* this->disconnected = true.
\* the flag inverted instead of set
ToggleDisconnected(cs, h) ==
  [i \in 1 .. Len(cs) |->
     IF cs[i].tcp_client = h
     THEN [cs[i] EXCEPT !.disconnected = ~cs[i].disconnected]
     ELSE cs[i]]

SetDisconnected(cs, h) ==
  [i \in 1 .. Len(cs) |->
     IF cs[i].tcp_client = h THEN [cs[i] EXCEPT !.disconnected = TRUE]
     ELSE cs[i]]

Flag(h) ==
  /\ h \in Handles(clients_)
  /\ nFlag < MaxFlag
  /\ nFlag' = nFlag + 1
  /\ clients_' = SetDisconnected(clients_, h)
  /\ UNCHANGED <<newApi, framerVars, nAccepted, closed, deleted, fanInVars,
                 fanOutVars, streamVars, ctlVars, nData, nNull, unitVars,
                 published>>

OnError(h) == Flag(h)

OnDisconnect(h) == Flag(h)

OnTimeout(h) == Flag(h)

\* onData with len == 0 or data == nullptr: return.
OnDataSpurious(h) ==
  /\ h \in Handles(clients_)
  /\ nNull < MaxNull
  /\ nNull' = nNull + 1
  /\ UNCHANGED <<newApi, framerVars, registryVars, fanInVars, fanOutVars,
                 streamVars, ctlVars, nData, nFlag, unitVars, published>>

\* recv_buf.insert(recv_buf.end(), buf, buf + len)
InsertAssign(rb, data) == data

\* the bytes placed before the buffered ones
\* only the first byte of the payload taken
InsertFirstByte(rb, data) == rb \o <<data[1]>>

InsertFront(rb, data) == data \o rb

Insert(rb, data) == rb \o data

\* onData of client h with len > 0 bytes.
OnData(h, data) ==
  /\ h \in Handles(clients_)
  /\ nData < MaxData
  /\ nData' = nData + 1
  /\ recv_buf_' = Insert(recv_buf_, data)
  /\ appended' = appended \o [i \in 1 .. Len(data) |-> <<h, data[i]>>]
  /\ wphase' = IF wphase = "out" THEN "out" ELSE "raced"
  /\ UNCHANGED <<newApi, framerVars, registryVars, tx, markApp, markTx, drain,
                 fanOutVars, streamVars, ctlVars, nFlag, nNull, unitVars,
                 published>>

\* A byte arrives on the stream.
StreamArrive(b) ==
  /\ nArrive < MaxArrive
  /\ nArrive' = nArrive + 1
  /\ rx' = Append(rx, b)
  /\ UNCHANGED <<newApi, framerVars, registryVars, fanInVars, fanOutVars,
                 ctlVars, cbVars, unitVars, published>>

\* More bytes than one chunk holds arrive on the stream before read() looks
\* again: BUF_SIZE + 1 bytes, none special, each different from the 199
\* around it.
BurstByte(i) == 32 + (i % 200)

StreamBurst ==
  /\ nArrive < MaxArrive
  /\ nArrive' = nArrive + 1
  /\ rx' = rx \o [i \in 1 .. (BUF_SIZE + 1) |-> BurstByte(i)]
  /\ UNCHANGED <<newApi, framerVars, registryVars, fanInVars, fanOutVars,
                 ctlVars, cbVars, unitVars, published>>

\* ------------------------------------------------------------------ cleanup
\* the discriminator inverted
LiveInverted(c) == c.disconnected

Live(c) == ~c.disconnected

Swap(s, i, j) == [s EXCEPT ![i] = s[j], ![j] = s[i]]

\* std::partition on a vector (iterators are positions 0 .. Len(s)): the
\* first position at or after f, before l, whose client is not live
RECURSIVE SkipLive(_, _, _)
SkipLive(s, f, l) ==
  IF f = l THEN l
  ELSE IF Live(s[f + 1]) THEN SkipLive(s, f + 1, l)
  ELSE f

\* the last position at or before l, after f, whose client is live
RECURSIVE SkipDead(_, _, _)
SkipDead(s, f, l) ==
  IF f = l THEN l
  ELSE IF ~Live(s[l + 1]) THEN SkipDead(s, f, l - 1)
  ELSE l

\* the swap loop: the first dead client from the left is exchanged with the
\* last live client from the right until the two positions meet
RECURSIVE PartitionLoop(_, _, _)
PartitionLoop(s, f, l) ==
  LET f1 == SkipLive(s, f, l)
  IN  IF f1 = l THEN [seq |-> s, mid |-> f1]
      ELSE LET l1 == SkipDead(s, f1, l - 1)
           IN  IF f1 = l1 THEN [seq |-> s, mid |-> f1]
               ELSE PartitionLoop(Swap(s, f1 + 1, l1 + 1), f1 + 1, l1)

\* std::partition(clients_.begin(), clients_.end(), discriminator): the
\* reordered vector and last_client
Partition(s) == PartitionLoop(s, 0, Len(s))

\* clients_.erase(last_client, clients_.end())
EraseAfterFirstDead(p) == SubSeq(p.seq, 1, Min(p.mid + 1, Len(p.seq)))

\* the erase left out: the partitioned vector kept whole
EraseNothing(p) == p.seq

Erase(p) == SubSeq(p.seq, 1, p.mid)

\* the clients the erase destroys: ~Client deletes each one's tcp_client
Erased(p) == {p.seq[i].tcp_client : i \in (p.mid + 1) .. Len(p.seq)}

\* loop() begins: cleanup()
Cleanup ==
  /\ pc = "idle"
  /\ ~shut
  /\ ticks < MaxTicks
  /\ ticks' = ticks + 1
  /\ clients_' = Erase(Partition(clients_))
  /\ deleted' = deleted \cup Erased(Partition(clients_))
  /\ liveAtCleanup' = {clients_[i].tcp_client :
                         i \in {j \in 1 .. Len(clients_) : Live(clients_[j])}}
  /\ nBcast' = 0
  /\ lastTo' = <<>>
  /\ atCleanup' = [dead |-> atCleanup.dead \cup
                              (Handles(clients_) \ liveAtCleanup'),
                   nFed |-> Len(fed),
                   nSent |-> [h \in 1 .. MaxClients |-> Len(sent[h])]]
  /\ pc' = "read"
  /\ UNCHANGED <<newApi, framerVars, nAccepted, closed, fanInVars, sent,
                 streamVars, buf, wlen, shut, cbVars, unitVars, published>>

\* --------------------------------------------------------------------- read
\* the chunk broadcast without being handed to readline
ReadChunkNoFrame ==
  /\ pc = "read"
  /\ Len(rx) > 0
  /\ buf' = Take(rx, Min(Len(rx), BUF_SIZE))
  /\ rx' = Drop(rx, Min(Len(rx), BUF_SIZE))
  /\ pc' = "fanout"
  /\ UNCHANGED <<newApi, framerVars, registryVars, fanInVars, fanOutVars,
                 nArrive, wlen, ticks, shut, cbVars, unitVars, published>>

\* while ((len = available()) > 0): len = min(len, BUF_SIZE); read_array
ReadChunk ==
  /\ pc = "read"
  /\ Len(rx) > 0
  /\ buf' = Take(rx, Min(Len(rx), BUF_SIZE))
  /\ rx' = Drop(rx, Min(Len(rx), BUF_SIZE))
  /\ pc' = "readline"
  /\ UNCHANGED <<newApi, framerVars, registryVars, fanInVars, fanOutVars,
                 nArrive, wlen, ticks, shut, cbVars, unitVars, published>>

\* read() left after its first chunk, whatever is available
ReadDoneAfterChunk ==
  /\ pc = "read"
  /\ (Len(rx) = 0 \/ nBcast > 0)
  /\ pc' = "write"
  /\ UNCHANGED <<newApi, framerVars, registryVars, fanInVars, fanOutVars,
                 streamVars, buf, wlen, ticks, shut, cbVars, unitVars,
                 published>>

\* available() is 0: read() returns and write() begins
ReadDone ==
  /\ pc = "read"
  /\ Len(rx) = 0
  /\ pc' = "write"
  /\ UNCHANGED <<newApi, framerVars, registryVars, fanInVars, fanOutVars,
                 streamVars, buf, wlen, ticks, shut, cbVars, unitVars,
                 published>>

\* publish_state(line): the std::string made from the char*
PublishNonEmpty(pub, r) ==
  IF r.found /\ CStr(r.line) # <<>> THEN Append(pub, CStr(r.line)) ELSE pub

Publish(pub, r) == IF r.found THEN Append(pub, CStr(r.line)) ELSE pub

\* if ((line = readline(buf, len))) readline_sensor->publish_state(line)
ReadLine ==
  /\ pc = "readline"
  /\ CallReadline(buf)
  /\ published' = Publish(published, Readline(line, pos, buf))
  /\ pc' = "fanout"
  /\ UNCHANGED <<newApi, registryVars, fanInVars, fanOutVars, streamVars,
                 buf, wlen, ticks, shut, cbVars, unitVars>>

\* the loop left after its first client
BroadcastFirst(snt, cs, chunk) ==
  [h \in DOMAIN snt |->
     IF Len(cs) > 0 /\ h = cs[1].tcp_client THEN snt[h] \o chunk ELSE snt[h]]

\* for (client : clients_) client->tcp_client->write(buf, len)
Broadcast(snt, cs, chunk) ==
  [h \in DOMAIN snt |-> IF h \in Handles(cs) THEN snt[h] \o chunk ELSE snt[h]]

FanOut ==
  /\ pc = "fanout"
  /\ sent' = Broadcast(sent, clients_, buf)
  /\ lastTo' = [i \in 1 .. Len(clients_) |-> clients_[i].tcp_client]
  /\ nBcast' = nBcast + 1
  /\ pc' = "read"
  /\ UNCHANGED <<newApi, framerVars, registryVars, fanInVars, liveAtCleanup,
                 atCleanup, streamVars, buf, wlen, ticks, shut, cbVars,
                 unitVars, published>>

\* -------------------------------------------------------------------- write
\* The write phase ends: what it wrote, what was due (appended since the
\* last write phase ended), what it left in recv_buf_.
DrainEnds(txNow, rbNow) ==
  /\ drain' = [n |-> drain.n + 1,
               wrote |-> SubSeq(txNow, markTx + 1, Len(txNow)),
               due |-> SubSeq(appended, markApp + 1, Len(appended)),
               left |-> rbNow,
               raced |-> wphase = "raced"]
  /\ markTx' = Len(txNow)
  /\ markApp' = Len(appended)
  /\ wphase' = "out"

\* stream_->write_array(recv_buf_)
WriteArray ==
  /\ pc = "write"
  /\ newApi
  /\ tx' = tx \o recv_buf_
  /\ wphase' = "in"
  /\ pc' = "clear"
  /\ UNCHANGED <<newApi, framerVars, registryVars, recv_buf_, appended,
                 markApp, markTx, drain, fanOutVars, streamVars, buf, wlen,
                 ticks, shut, cbVars, unitVars, published>>

\* recv_buf_.clear()
WriteClear ==
  /\ pc = "clear"
  /\ recv_buf_' = <<>>
  /\ DrainEnds(tx, <<>>)
  /\ pc' = "idle"
  /\ UNCHANGED <<newApi, framerVars, registryVars, appended, tx, fanOutVars,
                 streamVars, buf, wlen, ticks, shut, cbVars, unitVars,
                 published>>

\* before 2021.10: while ((len = recv_buf_.size()) > 0)
WriteSize ==
  /\ pc = "write"
  /\ ~newApi
  /\ Len(recv_buf_) > 0
  /\ wlen' = Len(recv_buf_)
  /\ wphase' = IF wphase = "out" THEN "in" ELSE wphase
  /\ pc' = "wwrite"
  /\ UNCHANGED <<newApi, framerVars, registryVars, recv_buf_, appended, tx,
                 markApp, markTx, drain, fanOutVars, streamVars, buf, ticks,
                 shut, cbVars, unitVars, published>>

\* recv_buf_.size() is 0: write() returns
WriteEmpty ==
  /\ pc = "write"
  /\ ~newApi
  /\ Len(recv_buf_) = 0
  /\ DrainEnds(tx, recv_buf_)
  /\ pc' = "idle"
  /\ UNCHANGED <<newApi, framerVars, registryVars, recv_buf_, appended, tx,
                 fanOutVars, streamVars, buf, wlen, ticks, shut, cbVars,
                 unitVars, published>>

\* stream_->write(recv_buf_.data(), len)
WriteBytes ==
  /\ pc = "wwrite"
  /\ tx' = tx \o Take(recv_buf_, wlen)
  /\ pc' = "werase"
  /\ UNCHANGED <<newApi, framerVars, registryVars, recv_buf_, appended,
                 markApp, markTx, wphase, drain, fanOutVars, streamVars, buf,
                 wlen, ticks, shut, cbVars, unitVars, published>>

\* recv_buf_.erase(begin, begin + len)
WriteErase ==
  /\ pc = "werase"
  /\ recv_buf_' = Drop(recv_buf_, wlen)
  /\ pc' = "write"
  /\ UNCHANGED <<newApi, framerVars, registryVars, appended, tx, markApp,
                 markTx, wphase, drain, fanOutVars, streamVars, buf, wlen,
                 ticks, shut, cbVars, unitVars, published>>

\* -------------------------------------------------------------- on_shutdown
\* the connections deleted instead of closed
OnShutdownDeletes ==
  /\ pc = "idle"
  /\ ~shut
  /\ shut' = TRUE
  /\ deleted' = deleted \cup Handles(clients_)
  /\ UNCHANGED <<newApi, framerVars, clients_, nAccepted, closed, fanInVars,
                 fanOutVars, streamVars, pc, buf, wlen, ticks, cbVars,
                 unitVars, published>>

\* for (client : clients_) client->tcp_client->close(true)
OnShutdown ==
  /\ pc = "idle"
  /\ ~shut
  /\ shut' = TRUE
  /\ closed' = closed \cup Handles(clients_)
  /\ UNCHANGED <<newApi, framerVars, clients_, nAccepted, deleted, fanInVars,
                 fanOutVars, streamVars, pc, buf, wlen, ticks, cbVars,
                 unitVars, published>>

\* ----------------------------------------------------------- the component
Payloads == {<<b>> : b \in PayloadBytes} \cup {<<b, c>> : b, c \in PayloadBytes}

\* the n-th payload with bytes of its own: one byte or two
PayloadsAt(n) == {<<120 + 2 * n>>, <<120 + 2 * n, 121 + 2 * n>>}

Next ==
  \/ OnClientNull
  \/ OnClient
  \/ \E h \in 1 .. MaxClients : OnError(h)
  \/ \E h \in 1 .. MaxClients : OnDisconnect(h)
  \/ \E h \in 1 .. MaxClients : OnTimeout(h)
  \/ \E h \in 1 .. MaxClients : OnDataSpurious(h)
  \/ \E h \in 1 .. MaxClients, d \in Payloads : OnData(h, d)
  \/ \E b \in Bytes : StreamArrive(b)
  \/ StreamBurst
  \/ Cleanup
  \/ ReadChunk
  \/ ReadDone
  \/ ReadLine
  \/ FanOut
  \/ WriteArray
  \/ WriteClear
  \/ WriteSize
  \/ WriteEmpty
  \/ WriteBytes
  \/ WriteErase
  \/ OnShutdown

Spec == Init /\ [][Next]_vars

\* The fan-in alone: clients and their onData callbacks against the write
\* phase; the stream delivers nothing, so read() finds nothing available.
\* Every payload byte is a different value.
NextFanIn ==
  \/ OnClient
  \/ \E h \in 1 .. MaxClients, d \in PayloadsAt(nData) : OnData(h, d)
  \/ Cleanup
  \/ ReadDone
  \/ WriteArray
  \/ WriteClear
  \/ WriteSize
  \/ WriteEmpty
  \/ WriteBytes
  \/ WriteErase

SpecFanIn == Init /\ [][NextFanIn]_vars

InitNew == Init /\ newApi

\* The fan-out alone: the registry, its callbacks and the stream's bytes
\* against cleanup() and read(); no client sends, so write() drains nothing.
\* Every stream byte is a different ordinary value.
NextFanOut ==
  \/ OnClient
  \/ \E h \in 1 .. MaxClients : OnError(h)
  \/ \E h \in 1 .. MaxClients : OnDisconnect(h)
  \/ \E h \in 1 .. MaxClients : OnTimeout(h)
  \/ (nArrive < MaxBcast /\ StreamArrive(97 + nArrive))
  \/ Cleanup
  \/ ReadChunk
  \/ ReadDone
  \/ ReadLine
  \/ FanOut
  \/ WriteArray
  \/ WriteClear

SpecFanOut == InitNew /\ [][NextFanOut]_vars

\* The read phase alone: the stream's bytes against read() and readline().
NextRead ==
  \/ \E b \in Bytes : StreamArrive(b)
  \/ Cleanup
  \/ ReadChunk
  \/ ReadDone
  \/ ReadLine
  \/ FanOut
  \/ WriteArray
  \/ WriteClear

SpecRead == InitNew /\ [][NextRead]_vars

\* The clients' lives: admission, the flag callbacks, onData, eviction and
\* shutdown; the stream delivers nothing.
NextLife ==
  \/ OnClient
  \/ \E h \in 1 .. MaxClients : OnError(h)
  \/ \E h \in 1 .. MaxClients : OnDisconnect(h)
  \/ \E h \in 1 .. MaxClients : OnTimeout(h)
  \/ \E h \in 1 .. MaxClients :
       nData < MaxLifeData /\ OnData(h, <<120 + nData>>)
  \/ Cleanup
  \/ ReadDone
  \/ WriteArray
  \/ WriteClear
  \/ OnShutdown

SpecLife == InitNew /\ [][NextLife]_vars

\* Ownership of the connections: the registry, the flag callbacks,
\* cleanup(), the broadcast of read() and on_shutdown; no client sends.
NextOwn ==
  \/ OnClient
  \/ \E h \in 1 .. MaxClients : OnError(h)
  \/ \E h \in 1 .. MaxClients : OnDisconnect(h)
  \/ \E h \in 1 .. MaxClients : OnTimeout(h)
  \/ (nArrive < MaxLifeData /\ StreamArrive(97 + nArrive))
  \/ Cleanup
  \/ ReadChunk
  \/ ReadDone
  \/ ReadLine
  \/ FanOut
  \/ WriteArray
  \/ WriteClear
  \/ OnShutdown

SpecOwn == InitNew /\ [][NextOwn]_vars

\* Admission: connections accepted, null connections reported, the flag
\* callbacks and onData of the admitted clients, and the tick.
NextAdmit ==
  \/ OnClientNull
  \/ OnClient
  \/ \E h \in 1 .. MaxClients : OnError(h)
  \/ \E h \in 1 .. MaxClients : OnDisconnect(h)
  \/ \E h \in 1 .. MaxClients : OnTimeout(h)
  \/ \E h \in 1 .. MaxClients :
       nData < MaxLifeData /\ OnData(h, <<120 + nData>>)
  \/ Cleanup
  \/ ReadDone
  \/ WriteArray
  \/ WriteClear

SpecAdmit == InitNew /\ [][NextAdmit]_vars

\* The chunks of read(): clients admitted at any time, and a stream that
\* delivers a '\r' at a time and bursts longer than a chunk.
NextChunk ==
  \/ (nAccepted < MaxChunkClients /\ OnClient)
  \/ (nArrive < MaxBcast /\ StreamArrive(CR))
  \/ (nArrive < MaxBcast /\ StreamBurst)
  \/ Cleanup
  \/ ReadChunk
  \/ ReadDone
  \/ ReadLine
  \/ FanOut
  \/ WriteArray
  \/ WriteClear

SpecChunk == InitNew /\ [][NextChunk]_vars

\* The whole tick, both builds: one client, its callbacks, and a stream that
\* delivers "a\r" a byte at a time.
NextTick ==
  \/ (nAccepted < MaxLifeData /\ OnClient)
  \/ \E h \in 1 .. MaxClients : nFlag < MaxLifeData /\ OnError(h)
  \/ \E h \in 1 .. MaxClients : nFlag < MaxLifeData /\ OnDisconnect(h)
  \/ \E h \in 1 .. MaxClients : nFlag < MaxLifeData /\ OnTimeout(h)
  \/ \E h \in 1 .. MaxClients :
       nData < MaxLifeData /\ OnData(h, <<120 + nData>>)
  \/ (nArrive < MaxBcast /\ StreamArrive(IF nArrive = 0 THEN 97 ELSE CR))
  \/ Cleanup
  \/ ReadChunk
  \/ ReadDone
  \/ ReadLine
  \/ FanOut
  \/ WriteArray
  \/ WriteClear
  \/ WriteSize
  \/ WriteEmpty
  \/ WriteBytes
  \/ WriteErase

SpecTick == Init /\ [][NextTick]_vars

\* The read phase against the write phase, both builds: a client whose bytes
\* wait in recv_buf_ while the stream keeps delivering.  Once a tick has
\* begun, loop() goes on to its end: its steps are weakly fair (callbacks
\* return; the scheduler need not start another tick).
LoopStep ==
  \/ ReadChunk
  \/ ReadDone
  \/ ReadLine
  \/ FanOut
  \/ WriteArray
  \/ WriteClear
  \/ WriteSize
  \/ WriteEmpty
  \/ WriteBytes
  \/ WriteErase

NextStarve ==
  \/ (nAccepted < MaxLifeData /\ OnClient)
  \/ \E h \in 1 .. MaxClients :
       nData < MaxLifeData /\ OnData(h, <<120 + nData>>)
  \/ (nArrive < MaxBcast /\ StreamArrive(97 + nArrive))
  \/ Cleanup
  \/ LoopStep

SpecStarve == Init /\ [][NextStarve]_vars /\ WF_vars(LoopStep)

\* the n-th payload where one is enough: a byte, then two bytes each
PayloadNth(n) ==
  IF n = 0 THEN <<120>> ELSE <<120 + 2 * n, 121 + 2 * n>>

\* onData alone: clients, live and disconnected, whose onData callbacks
\* come with and without bytes, against the tick; the stream delivers
\* nothing.
NextData ==
  \/ (nAccepted < MaxChunkClients /\ OnClient)
  \/ \E h \in 1 .. MaxClients : nFlag < MaxLifeData /\ OnDisconnect(h)
  \/ \E h \in 1 .. MaxClients : OnDataSpurious(h)
  \/ \E h \in 1 .. MaxClients : OnData(h, PayloadNth(nData))
  \/ Cleanup
  \/ ReadDone
  \/ WriteArray
  \/ WriteClear

SpecData == InitNew /\ [][NextData]_vars

\* ------------------------------------------------- readline called directly
\* The framer fed one byte per call, any byte.
FramerFeed(c) ==
  /\ run = 0
  /\ nFeed < MaxFeed
  /\ CallReadline(<<c>>)
  /\ nFeed' = nFeed + 1
  /\ UNCHANGED <<newApi, registryVars, fanInVars, fanOutVars, streamVars,
                 ctlVars, cbVars, nRun, run, published>>

\* A burst of RunLen filler bytes begins (once) ...
FramerRunStart ==
  /\ run = 0
  /\ nRun = 0
  /\ run' = RunLen
  /\ nRun' = nRun + 1
  /\ UNCHANGED <<newApi, framerVars, registryVars, fanInVars, fanOutVars,
                 streamVars, ctlVars, cbVars, nFeed, published>>

\* ... and is fed one byte per call.
FramerRunStep ==
  /\ run > 0
  /\ CallReadline(<<Filler(run)>>)
  /\ run' = run - 1
  /\ UNCHANGED <<newApi, registryVars, fanInVars, fanOutVars, streamVars,
                 ctlVars, cbVars, nFeed, nRun, published>>

NextFramer ==
  \/ \E c \in FeedBytes : FramerFeed(c)
  \/ FramerRunStart
  \/ FramerRunStep

SpecFramer == InitNew /\ [][NextFramer]_vars

\* =================================================================== claims
\* The reference the framer is compared with: the '\r'-terminated segments of
\* a byte sequence, every '\n' removed (an unterminated tail is no segment).
NoLF(s) == SelectSeq(s, LAMBDA c : c # LF)

CRPos(s) == {i \in 1 .. Len(s) : s[i] = CR}

\* the position of the k-th '\r' (0 for k = 0)
NthCR(s, k) ==
  IF k = 0 THEN 0
  ELSE CHOOSE i \in CRPos(s) : Cardinality({j \in CRPos(s) : j <= i}) = k

RefSegs(s) ==
  [k \in 1 .. Cardinality(CRPos(s)) |->
     NoLF(SubSeq(s, NthCR(s, k - 1) + 1, NthCR(s, k) - 1))]

Truncated(segs) == [i \in 1 .. Len(segs) |-> Take(segs[i], LINE_SIZE - 1)]

RefLines(s) == Truncated(RefSegs(s))

C9_Overflow ==
  LET segs == RefSegs(fed)
  IN  /\ pos \in 0 .. (LINE_SIZE - 1)
      /\ ~oob
      /\ Len(line) = LINE_SIZE
      /\ Len(retLines) = Len(segs)
      /\ \A i \in 1 .. Len(retLines) :
           (i <= Len(segs) /\ Len(segs[i]) > LINE_SIZE - 1) =>
             /\ retLines[i] = SubSeq(segs[i], 1, LINE_SIZE - 1)
             /\ (i < Len(retLines) /\ i < Len(segs)) =>
                  retLines[i + 1] = Take(segs[i + 1], LINE_SIZE - 1)

\* the buffer is full, a byte was dropped, and the line was returned
W9_Dropped ==
  /\ Len(retLines) = 1
  /\ Len(RefSegs(fed)[1]) = LINE_SIZE + 1
  /\ Len(retLines[1]) = LINE_SIZE - 1

\* ------------------------------------------------------------------ fan-in
Count(s, b) == Cardinality({i \in 1 .. Len(s) : s[i] = b})

Range(s) == {s[i] : i \in 1 .. Len(s)}

SameBag(s, t) == \A b \in Range(s) \cup Range(t) : Count(s, b) = Count(t, b)

BytesOf(app) == [i \in 1 .. Len(app) |-> app[i][2]]

\* C1: a write phase during which no onData ran writes to the stream exactly
\* the bytes appended since the previous write phase ended, each once, and
\* leaves recv_buf_ empty.
C1_FanInOnce ==
  (drain.n > 0 /\ ~drain.raced) =>
    /\ SameBag(drain.wrote, BytesOf(drain.due))
    /\ drain.left = <<>>

\* the second write phase wrote what two clients appended since the first
W1_TwoClients ==
  /\ drain.n = 2
  /\ ~drain.raced
  /\ \E i, j \in 1 .. Len(drain.due) : drain.due[i][1] # drain.due[j][1]
  /\ Len(drain.wrote) >= 2

\* C2 as claimed: whenever onData runs, also inside the write phase, every
\* appended byte is written to the stream once or is still in recv_buf_.
C2_DrainSafe ==
  pc = "idle" => SameBag(tx \o recv_buf_, BytesOf(appended))

\* ----------------------------------------------------------------- fan-out
LiveHandles(cs) ==
  {cs[i].tcp_client : i \in {j \in 1 .. Len(cs) : Live(cs[j])}}

\* C3 as claimed: a chunk's recipients are the clients that were live when
\* this tick's cleanup began, and no others.
C3_BroadcastTargets ==
  nBcast > 0 => Range(lastTo) = liveAtCleanup

\* C4: cleanup() leaves exactly the clients whose flag was false at the call:
\* none of them removed, none flagged left, none twice, each as it was.
C4_Cleanup ==
  [][(pc = "idle" /\ pc' = "read") =>
       /\ Handles(clients_') = LiveHandles(clients_)
       /\ Len(clients_') = Cardinality(LiveHandles(clients_))
       /\ \A i \in 1 .. Len(clients_') :
            /\ ~clients_'[i].disconnected
            /\ \E j \in 1 .. Len(clients_) : clients_[j] = clients_'[i]]_vars

\* a cleanup has evicted a client and kept two
W4_Evicted ==
  /\ pc = "read"
  /\ deleted # {}
  /\ Len(clients_) = 2
  /\ liveAtCleanup = Handles(clients_)

\* C5 as claimed: the clients that survive cleanup() are in the order they
\* had before it.
C5_OrderKept ==
  [][(pc = "idle" /\ pc' = "read") =>
       clients_' = SelectSeq(clients_, Live)]_vars

\* ------------------------------------------------------------ read phase
StrsOf(ls) == [i \in 1 .. Len(ls) |-> CStr(ls[i])]

\* C7 as claimed: the lines published are the lines the framer returns for
\* the bytes read, fed one at a time (both read as strings).
C7_PublishAll ==
  published = StrsOf(RefLines(fed))

\* the bytes of a chunk before its first '\r' (all of it when it has none)
UpToCR(s) == IF CRPos(s) = {} THEN s ELSE SubSeq(s, 1, NthCR(s, 1) - 1)

\* C8: a chunk without '\r' returns no line; the accumulator holds the
\* non-'\n' bytes taken in since the last returned line, whatever ran in
\* between; the chunk that brings the '\r' returns what was accumulated
\* followed by its own bytes before the '\r'.
C8_Accumulate ==
  /\ Take(line, pos) = Take(NoLF(seg), LINE_SIZE - 1)
  /\ lastCall.found <=> CR \in Range(lastCall.chunk)
  /\ lastCall.found =>
       lastCall.str = Take(lastCall.acc \o NoLF(UpToCR(lastCall.chunk)),
                           LINE_SIZE - 1)

\* "a\nb" was read in the first tick and "\r" in the second, returning "ab"
W8_AcrossTicks ==
  /\ ticks = 2
  /\ fed = <<97, LF, 98, CR>>
  /\ lastCall.chunk = <<CR>>
  /\ lastCall.acc = <<97, 98>>
  /\ lastCall.found
  /\ lastCall.str = <<97, 98>>

\* C10: a '\r' that finds the accumulator empty returns the empty string, not
\* NULL, and read() publishes it.
C10_EmptyLine ==
  (/\ lastCall.acc = <<>>
   /\ CR \in Range(lastCall.chunk)
   /\ NoLF(UpToCR(lastCall.chunk)) = <<>>) =>
    /\ lastCall.found
    /\ lastCall.str = <<>>
    /\ Len(published) = lastCall.npub + 1
    /\ published[Len(published)] = <<>>

\* an empty line was published after a non-empty one
W10_EmptyPublished ==
  /\ lastCall.found
  /\ lastCall.acc = <<>>
  /\ lastCall.chunk = <<CR>>
  /\ published = <<<<97>>, <<>>>>

FlagOf(cs, h) == \E i \in 1 .. Len(cs) : cs[i].tcp_client = h /\ cs[i].disconnected

\* C12: a client enters the registry with its flag false; an onError,
\* onDisconnect or onTimeout callback leaves its client's flag true and the
\* other clients as they were; no step turns a true flag of a client that
\* stays in the registry back to false.
C12_FlagMonotonic ==
  [][/\ \A h \in Handles(clients_') :
          /\ h \notin Handles(clients_) => ~FlagOf(clients_', h)
          /\ (h \in Handles(clients_) /\ FlagOf(clients_, h)) =>
               \A i \in 1 .. Len(clients_') :
                 clients_'[i].tcp_client = h => clients_'[i].disconnected
     /\ nFlag' # nFlag =>
          /\ Len(clients_') = Len(clients_)
          /\ \E i \in 1 .. Len(clients_) :
               /\ clients_'[i] = [clients_[i] EXCEPT !.disconnected = TRUE]
               /\ \A j \in 1 .. Len(clients_) : j # i => clients_'[j] = clients_[j]
    ]_vars

\* the only client was flagged by two callbacks, sent data after that, and
\* the component was shut down: its flag is still true
W12_FlaggedTwice ==
  /\ nFlag = 2
  /\ nAccepted = 1
  /\ shut
  /\ appended # <<>>
  /\ Len(clients_) = 1
  /\ clients_[1].disconnected


C14_NullAdmission ==
  [][/\ nNull' # nNull =>
          /\ clients_' = clients_
          /\ recv_buf_' = recv_buf_
          /\ nAccepted' = nAccepted
     /\ nAccepted' # nAccepted =>
          /\ Len(clients_') = Len(clients_) + 1
          /\ SubSeq(clients_', 1, Len(clients_)) = clients_
          /\ clients_'[Len(clients_')].tcp_client \notin Handles(clients_)
          /\ ~clients_'[Len(clients_')].disconnected
          /\ recv_buf_' = recv_buf_
    ]_vars

\* a null connection was reported and three clients admitted; the registry
\* holds a flagged client before a live one and recv_buf_ holds a byte
W14_NullThenAdmit ==
  /\ nNull = 1
  /\ Len(clients_) = 3
  /\ clients_[1].disconnected
  /\ ~clients_[2].disconnected
  /\ clients_[3].tcp_client = 3
  /\ recv_buf_ # <<>>


\* C15: every client whose flag is true when a cleanup() begins is out of the
\* registry, its connection deleted, when that cleanup() ends.
C15_ReapedNextTick ==
  [][(pc = "idle" /\ pc' = "read") =>
       \A i \in 1 .. Len(clients_) :
         clients_[i].disconnected =>
           /\ clients_[i].tcp_client \notin Handles(clients_')
           /\ clients_[i].tcp_client \in deleted']_vars

\* client 1 survived the first tick's cleanup, was flagged after it (it was
\* still written that tick's chunk), and the second tick's cleanup reaped it
W15_ReapedSecondTick ==
  /\ ticks = 2
  /\ pc = "read"
  /\ deleted = {1}
  /\ sent[1] = <<97>>
  /\ Len(clients_) = 2


\* ------------------------------------------------------------ the chunks
\* C16: read() takes the stream's bytes in order, at most BUF_SIZE at a
\* time; the broadcast of a chunk appends exactly that chunk to what each
\* client of the registry has been sent and to no one else's; so a client
\* that was live when the tick's cleanup began has been sent, since then,
\* exactly the bytes read since then (those handed to readline, less the
\* chunk still to be broadcast), whether or not they held a '\r'.
C16_FanOutVerbatim ==
  /\ [](/\ Len(buf) <= BUF_SIZE
        /\ \A h \in liveAtCleanup :
             Drop(sent[h], atCleanup.nSent[h])
               \o (IF pc = "fanout" THEN buf ELSE <<>>)
             = Drop(fed, atCleanup.nFed))
  /\ [][/\ (pc = "read" /\ pc' = "readline") =>
             /\ Len(buf') = Min(Len(rx), BUF_SIZE)
             /\ buf' \o rx' = rx
        /\ (pc = "readline" /\ pc' = "fanout") => fed' = fed \o buf
        /\ (pc = "fanout" /\ pc' = "read") =>
             \A h \in 1 .. MaxClients :
               sent'[h] = IF h \in Handles(clients_) THEN sent[h] \o buf
                          ELSE sent[h]
       ]_vars

\* a read phase took a full chunk and a shorter one with a '\r' in it; a
\* client there from the start was sent both, a client admitted in between
\* only the second
W16_TwoChunks ==
  /\ pc = "write"
  /\ Len(fed) - atCleanup.nFed > BUF_SIZE
  /\ CR \in Range(fed)
  /\ \E h \in liveAtCleanup, g \in Handles(clients_) \ liveAtCleanup :
       /\ Len(sent[h]) > BUF_SIZE
       /\ sent[h] = fed
       /\ Len(sent[g]) \in 1 .. (BUF_SIZE - 1)


\* ------------------------------------------------------ order of the fan-in
\* where byte b was appended (every payload byte is a different value)
AppendedAt(b) == CHOOSE k \in 1 .. Len(appended) : appended[k][2] = b

\* bytes delivered by the same onData callback
SamePayload(b, c) == (b - 120) \div 2 = (c - 120) \div 2

\* C17: the bytes written to the stream are bytes that were appended, in the
\* order in which they were appended (so each client's bytes are in the
\* order its callbacks delivered them), and the bytes of one callback are
\* written next to each other.
C17_ArrivalOrder ==
  /\ \A i \in 1 .. Len(tx) : tx[i] \in Range(BytesOf(appended))
  /\ \A i, j \in 1 .. Len(tx) :
       i < j => AppendedAt(tx[i]) < AppendedAt(tx[j])
  /\ \A i, j \in 1 .. Len(tx) :
       (i < j /\ SamePayload(tx[i], tx[j])) =>
         \A k \in i .. j : SamePayload(tx[i], tx[k])

\* client 1's byte and then client 2's two bytes were appended, and the
\* stream was written the three in that order
W17_TwoClientsInOrder ==
  /\ Len(appended) = 3
  /\ appended[1][1] # appended[2][1]
  /\ appended[2][1] = appended[3][1]
  /\ tx = BytesOf(appended)


\* ------------------------------------------------------------ the tick
\* the order of loop(): cleanup(); read() with, for each chunk, readline and
\* then the broadcast; write() in either build
PhaseOrder ==
  {<<"idle", "read">>, <<"read", "readline">>, <<"readline", "fanout">>,
   <<"fanout", "read">>, <<"read", "write">>, <<"write", "clear">>,
   <<"clear", "idle">>, <<"write", "wwrite">>, <<"wwrite", "werase">>,
   <<"werase", "write">>, <<"write", "idle">>}

\* C18: a tick is cleanup, then the read phase, then the write phase, once
\* each (as many write phases have ended as ticks have begun, less the one
\* in progress); clients are evicted only at the start of a tick and chunks
\* broadcast only after it; the stream is written only in the write phase,
\* after the read phase; a chunk is handed to readline, and its line
\* published, before it is broadcast.
C18_PhaseOrder ==
  /\ [](/\ drain.n = IF pc = "idle" THEN ticks ELSE ticks - 1
        /\ pc = "fanout" =>
             /\ lastCall.chunk = buf
             /\ Len(fed) >= Len(buf)
             /\ SubSeq(fed, Len(fed) - Len(buf) + 1, Len(fed)) = buf
             /\ lastCall.found => Len(published) = lastCall.npub + 1)
  /\ [][/\ pc' # pc => <<pc, pc'>> \in PhaseOrder
        /\ ticks' # ticks => (pc = "idle" /\ pc' = "read")
        /\ Len(clients_') < Len(clients_) => (pc = "idle" /\ pc' = "read")
        /\ sent' # sent => (pc = "fanout" /\ pc' = "read")
        /\ (fed' # fed \/ published' # published) =>
             (pc = "readline" /\ pc' = "fanout")
        /\ tx' # tx => (pc \in {"write", "wwrite"} /\ pc' \in {"clear", "werase"})
       ]_vars

\* two ticks are over: the second evicted the client, which had been sent
\* the chunks of the first; a line was published and a client byte written
W18_TwoTicks ==
  /\ pc = "idle"
  /\ ticks = 2
  /\ deleted = {1}
  /\ sent[1] = <<97, CR>>
  /\ published = <<<<97>>>>
  /\ tx = <<120>>


\* C19: read() leaves its loop exactly when the stream reports nothing
\* available: at a check that finds no byte the write phase begins, at a
\* check that finds bytes a chunk is read and the loop goes on; the write
\* phase is entered from nowhere else, and the stream is written only in it,
\* so for as long as every check finds bytes nothing of recv_buf_ is
\* written.  When the stream stops delivering, the read phase ends and the
\* write phase begins.
C19_ReadUntilEmpty ==
  /\ [][/\ (pc = "read" /\ pc' # pc) =>
             /\ Len(rx) = 0 <=> pc' = "write"
             /\ Len(rx) > 0 <=> pc' = "readline"
        /\ (pc' = "write" /\ pc \notin {"write", "werase"}) =>
             (pc = "read" /\ Len(rx) = 0)
        /\ (pc \in {"read", "readline", "fanout"} /\
            pc' \in {"read", "readline", "fanout"}) =>
             (tx' = tx /\ Len(recv_buf_') >= Len(recv_buf_))
       ]_vars
  /\ (pc = "read") ~> (pc = "write")

\* the read phase has gone round and the stream has a byte again, while
\* the client's byte waits in recv_buf_, unwritten
W19_Starved ==
  /\ pc = "read"
  /\ nBcast = 1
  /\ Len(rx) > 0
  /\ recv_buf_ # <<>>
  /\ tx = <<>>


\* ------------------------------------------------------------------ onData
\* C20: onData without bytes (here nNull counts these calls) leaves
\* recv_buf_ as it is; onData with bytes puts exactly those bytes, in order,
\* after the bytes already in recv_buf_; neither changes the registry, a
\* flag, the stream or what the clients were sent, whether the client the
\* callback belongs to is flagged or not.
C20_OnDataGuard ==
  [][/\ nNull' # nNull =>
          /\ recv_buf_' = recv_buf_
          /\ appended' = appended
     /\ nData' # nData =>
          /\ Len(appended') > Len(appended)
          /\ recv_buf_' = recv_buf_ \o
               BytesOf(SubSeq(appended', Len(appended) + 1, Len(appended')))
     /\ (nNull' # nNull \/ nData' # nData) =>
          /\ clients_' = clients_
          /\ deleted' = deleted
          /\ tx' = tx
          /\ sent' = sent
          /\ pc' = pc
    ]_vars

\* client 1 is flagged; an onData without bytes has run, and recv_buf_ holds
\* client 2's byte followed by client 1's two bytes
W20_FlaggedClientData ==
  /\ nNull = 1
  /\ Len(clients_) = 2
  /\ clients_[1].disconnected
  /\ ~clients_[2].disconnected
  /\ appended = <<<<2, 120>>, <<1, 122>>, <<1, 123>>>>
  /\ recv_buf_ = <<120, 122, 123>>


====
